---- MODULE Spec2Model ----
(***************************************************************************)
(* Model of vault_awx_update_role_id.py: one run of main(), which reads a  *)
(* value from a Vault KV-v2 secret and writes it into the "role_id" input  *)
(* of a named AWX credential.  The run is a straight line of steps; the    *)
(* services' answers are the nondeterministic inputs of each step.         *)
(***************************************************************************)
EXTENDS Integers, Sequences, FiniteSets

\* ------------------------------------------------------------------ bounds
\* Longest "results" list the find-by-name query returns.
MaxResults == 2
\* Credential identifiers are drawn from 1..MaxId.
MaxId == 2

\* ------------------------------------------------------------- input sets
\* Python's None (an option given neither by flag nor by environment, a
\* JSON null, a dict.get() miss).
None == "<None>"

\* Names of secret keys, subkeys and credentials.
Names == {"n1", "n2"}

\* argparse destinations, in the order of the `required` list, and the password.
required == <<"vault_addr", "vault_secret", "key", "subkey", "awx_url", "cred_name", "username">>
Options == {required[i] : i \in 1..Len(required)} \cup {"password"}

\* The value each option carries when given by flag and when given by
\* environment variable.  Addresses, path, user name and password are opaque
\* to the run and have one value; key, subkey and credential name differ by
\* source, so that which one the run uses shows.
Opaque == {"vault_addr", "vault_secret", "awx_url", "username", "password"}
FlagValue == [o \in Options |-> IF o \in Opaque THEN o ELSE "n1"]
EnvValue == [o \in Options |-> IF o \in Opaque THEN o ELSE "n2"]

\* What flags or environment variables can hold: each required option is
\* absent or carries its value; the password may also be the empty string.
Sources(value) ==
    { [o \in Options |-> IF o = "password" THEN pw
                         ELSE IF o \in given THEN value[o] ELSE None] :
        given \in SUBSET (Options \ {"password"}), pw \in {None, "", value["password"]} }

\* Python dicts: all mappings from a subset of keys to values, and those
\* with at most one entry.
Dicts(keys, values) == UNION {[d -> values] : d \in SUBSET keys}
EmptyDict == [k \in {} |-> None]
SmallDicts(keys, values) == {EmptyDict} \cup {[x \in {k} |-> v] : k \in keys, v \in values}

\* JSON values: null, a string (or any other scalar), an object.
JNull == [t |-> "null", v |-> EmptyDict]
JStr == [t |-> "str", v |-> EmptyDict]
JDict(d) == [t |-> "dict", v |-> d]
\* A JSON array, and a variable not assigned yet.
JList(l) == [t |-> "list", v |-> l]
Unset == [t |-> "unset", v |-> EmptyDict]

\* Values stored under key.subkey of the secret document; "" and null are falsy.
SecretValues == {None, "", "X", "Y"}
\* The secret documents Vault may return: data.data maps a key to an object
\* of subkeys, to a scalar, or to null.
SecretDocs ==
    SmallDicts(Names, {JNull, JStr} \cup {JDict(d) : d \in SmallDicts(Names, SecretValues)})

\* Keys and values of a credential's "inputs" mapping.
InputKeys == {"a", "role_id"}
InputValues == {"1", "X"}
\* "inputs" as a credential record carries it: absent, null, or an object.
Absent == [t |-> "absent", v |-> EmptyDict]
InputsFields == {Absent, JNull} \cup {JDict(d) : d \in Dicts(InputKeys, InputValues)}

\* The result lists of the find-by-name query: the ids of the records, in order.
ResultLists == UNION {[1..n -> 1..MaxId] : n \in 0..MaxResults}

\* Statuses the PATCH may answer with, and the response texts.
SuccessStatuses == {200, 202}
PatchStatuses == {200, 201, 202, 400, 500}
PatchTexts == {"", "bad request"}
NoResponse == [status_code |-> 0, text |-> ""]

VARIABLES
    pc,             \* the step main() is at
    supplied,       \* options given by flag or by environment variable
    args,           \* the argparse namespace
    login_pass,     \* password used for Vault and AWX
    prompted,       \* whether getpass() was called
    secret_data,    \* read_response["data"]["data"]
    role_id,        \* the value read from Vault
    results,        \* "results" of the find-by-name response
    cred_id,        \* identifier of the credential being updated
    fetched_inputs, \* "inputs" as the fetch-fields response carried it
    current_inputs, \* the mapping that is merged and sent back
    patch_resp,     \* the PATCH response
    calls,          \* network requests issued so far, in order
    output,         \* lines printed so far, in order
    exit_code       \* exit status of the process

vars == <<pc, supplied, args, login_pass, prompted, secret_data, role_id, results,
          cred_id, fetched_inputs, current_inputs, patch_resp, calls, output, exit_code>>

\* ----------------------------------------------------------------- helpers
\* Python truthiness with the empty string taken for a value.
TruthyNotNone(v) == v # None

\* sys.exit without the failure status.
ExitZero(code) == pc' = "exited" /\ exit_code' = 0

\* argparse: the flag if given, else default=os.getenv(...).
Resolve(flag, env) == IF flag # None THEN flag ELSE env

\* Python truthiness of an optional string.
Truthy(v) == v # None /\ v # ""

\* print(...): one more line on the console.
Echo(line) == output' = Append(output, line)

\* sys.exit(code), or the interpreter ending on an uncaught exception.
Exit(code) == pc' = "exited" /\ exit_code' = code

\* A request sent over the network.
Send(reqs) == calls' = calls \o reqs

Init ==
    /\ pc = "parse"
    /\ supplied = {}
    /\ args = [o \in Options |-> None]
    /\ login_pass = None
    /\ prompted = FALSE
    /\ secret_data = Unset
    /\ role_id = None
    /\ results = Unset
    /\ cred_id = 0
    /\ fetched_inputs = Unset
    /\ current_inputs = Unset
    /\ patch_resp = NoResponse
    /\ calls = <<>>
    /\ output = <<>>
    /\ exit_code = 0

\* ------------------------------------------------------ configuration step
\* The required-parameter loop reporting the last miss instead of the first.
FirstMissingLast(a) ==
    LET miss == {i \in 1..Len(required) : a[required[i]] = None}
    IN IF miss = {} THEN 0 ELSE CHOOSE i \in miss : \A j \in miss : i >= j

\* Index of the first required option that is None, 0 when there is none:
\* the for loop over `required` exits at the first miss.
FirstMissing(a) ==
    LET miss == {i \in 1..Len(required) : a[required[i]] = None}
    IN IF miss = {} THEN 0 ELSE CHOOSE i \in miss : \A j \in miss : i <= j

\* parse_args() and the required-parameter loop.
ParseAndCheck ==
    /\ pc = "parse"
    /\ \E flags \in Sources(FlagValue), env \in Sources(EnvValue) :
        /\ LET a == [o \in Options |-> Resolve(flags[o], env[o])]
               m == FirstMissing(a)
           IN /\ args' = a
              /\ supplied' = {o \in Options : flags[o] # None \/ env[o] # None}
              /\ IF m # 0
                 THEN /\ Echo([kind |-> "MissingParameter", param |-> required[m]])
                      /\ Exit(1)
                 ELSE /\ pc' = "prompt"
                      /\ UNCHANGED <<output, exit_code>>
    /\ UNCHANGED <<login_pass, prompted, secret_data, role_id, results, cred_id,
                   fetched_inputs, current_inputs, patch_resp, calls>>

\* login_pass = args.password or getpass.getpass(...)
PromptPassword ==
    /\ pc = "prompt"
    /\ \/ /\ Truthy(args["password"])
          /\ login_pass' = args["password"]
          /\ UNCHANGED prompted
          /\ pc' = "login"
          /\ UNCHANGED exit_code
       \/ /\ ~Truthy(args["password"])
          /\ prompted' = TRUE
          /\ \E typed \in {"", "typed"} : login_pass' = typed
          /\ pc' = "login"
          /\ UNCHANGED exit_code
       \/ /\ ~Truthy(args["password"])     \* getpass raises (EOF on stdin): uncaught
          /\ prompted' = TRUE
          /\ UNCHANGED login_pass
          /\ Exit(1)
    /\ UNCHANGED <<supplied, args, secret_data, role_id, results, cred_id,
                   fetched_inputs, current_inputs, patch_resp, calls, output>>

\* ------------------------------------------------------- secret-store steps
\* client.auth.userpass.login(...) and client.is_authenticated().
VaultLoginRequest == [op |-> "vault_login", url |-> args["vault_addr"],
                      username |-> args["username"], password |-> login_pass]
VaultTokenLookup == [op |-> "vault_is_authenticated", url |-> args["vault_addr"]]

\* The same branch without its sys.exit(1): the run goes on to the read.
VaultNotAuthenticatedFallThrough ==
    /\ output' = Append(output, [kind |-> "VaultAuthFailed"])
    /\ pc' = "read"
    /\ UNCHANGED exit_code

\* is_authenticated() is False: report and exit.
VaultNotAuthenticated ==
    /\ Echo([kind |-> "VaultAuthFailed"])
    /\ Exit(1)

VaultLogin ==
    /\ pc = "login"
    /\ \/ \E err \in {"rejected", "unreachable"} :        \* login() raises
            /\ Send(<<VaultLoginRequest>>)
            /\ Echo([kind |-> "VaultAuthError", error |-> err])
            /\ Exit(1)
       \/ /\ Send(<<VaultLoginRequest, VaultTokenLookup>>)   \* is_authenticated() raises
          /\ Echo([kind |-> "VaultAuthError", error |-> "unreachable"])
          /\ Exit(1)
       \/ /\ Send(<<VaultLoginRequest, VaultTokenLookup>>)   \* is_authenticated() is False
          /\ VaultNotAuthenticated
       \/ /\ Send(<<VaultLoginRequest, VaultTokenLookup>>)   \* authenticated
          /\ pc' = "read"
          /\ UNCHANGED <<output, exit_code>>
    /\ UNCHANGED <<supplied, args, login_pass, prompted, secret_data, role_id, results,
                   cred_id, fetched_inputs, current_inputs, patch_resp>>

\* secret_data.get(key, {}): the entry, or an empty object.
GetKey(doc, key) == IF key \in DOMAIN doc THEN doc[key] ELSE JDict(EmptyDict)
\* <object>.get(subkey): the entry, or None.
GetSubkey(obj, subkey) == IF subkey \in DOMAIN obj THEN obj[subkey] ELSE None

VaultReadRequest == [op |-> "vault_read", url |-> args["vault_addr"], path |-> args["vault_secret"]]

\* read_secret_version(...) and the two-level lookup.
ReadSecret ==
    /\ pc = "read"
    /\ Send(<<VaultReadRequest>>)
    /\ \/ \E err \in {"invalid_path", "forbidden", "unreachable", "no_data"} :
            /\ Echo([kind |-> "VaultReadError", error |-> err])
            /\ Exit(1)
            /\ UNCHANGED <<secret_data, role_id>>
       \/ \E doc \in SecretDocs :
            /\ secret_data' = JDict(doc)
            /\ LET inner == GetKey(doc, args["key"])
               IN IF inner.t # "dict"
                  THEN \* .get on a scalar or on None: AttributeError, caught below
                       /\ Echo([kind |-> "VaultReadError", error |-> "attribute_error"])
                       /\ Exit(1)
                       /\ UNCHANGED role_id
                  ELSE /\ role_id' = GetSubkey(inner.v, args["subkey"])
                       /\ IF ~Truthy(role_id')
                          THEN /\ Echo([kind |-> "SecretNotRetrieved",
                                        key |-> args["key"], subkey |-> args["subkey"]])
                               /\ Exit(1)
                          ELSE /\ Echo([kind |-> "RetrievedRoleId"])
                               /\ pc' = "find"
                               /\ UNCHANGED exit_code
    /\ UNCHANGED <<supplied, args, login_pass, prompted, results, cred_id,
                   fetched_inputs, current_inputs, patch_resp>>

\* ----------------------------------------------------------- platform steps
\* The session authenticates every request with (args.username, login_pass).
SessionAuth == <<args["username"], login_pass>>

FindRequest == [op |-> "awx_find", url |-> args["awx_url"], name |-> args["cred_name"],
                auth |-> SessionAuth]

\* Without the emptiness test results[0] raises IndexError, which the
\* enclosing except reports as a request error.
FindNoneAsError ==
    /\ output' = Append(output, [kind |-> "FindError", error |-> "index_error"])
    /\ pc' = "exited"
    /\ exit_code' = 1

\* Taking the last match instead of the first.
LastResult(res) == res[Len(res)]

\* `if not results`: report the credential as not found and exit.
FindNone ==
    /\ Echo([kind |-> "CredentialNotFound", name |-> args["cred_name"]])
    /\ Exit(1)

\* results[0]["id"]
FirstResult(res) == res[1]

\* GET /api/v2/credentials/?name=..., results[0]["id"].
FindCredential ==
    /\ pc = "find"
    /\ Send(<<FindRequest>>)
    /\ \/ \E err \in {"request_error", "status_error", "bad_json", "no_id"} :
            /\ Echo([kind |-> "FindError", error |-> err])
            /\ Exit(1)
            /\ UNCHANGED <<results, cred_id>>
       \/ \E res \in ResultLists :
            /\ results' = JList(res)
            /\ IF res = <<>>
               THEN /\ FindNone
                    /\ UNCHANGED cred_id
               ELSE /\ cred_id' = FirstResult(res)
                    /\ Echo([kind |-> "FoundCredential", name |-> args["cred_name"],
                             id |-> cred_id'])
                    /\ pc' = "fetch"
                    /\ UNCHANGED exit_code
    /\ UNCHANGED <<supplied, args, login_pass, prompted, secret_data, role_id,
                   fetched_inputs, current_inputs, patch_resp>>

\* cred_url = f"{args.awx_url}/api/v2/credentials/{cred_id}/"
cred_url == [url |-> args["awx_url"], id |-> cred_id]

FetchRequest == [op |-> "awx_fetch", target |-> cred_url, auth |-> SessionAuth]

\* cred_response.json().get("inputs", {})
GetInputs(field) == IF field = Absent THEN JDict(EmptyDict) ELSE field

\* GET the credential and take its "inputs".
FetchInputs ==
    /\ pc = "fetch"
    /\ Send(<<FetchRequest>>)
    /\ \/ \E err \in {"request_error", "status_error", "bad_json"} :
            /\ Echo([kind |-> "FetchError", error |-> err])
            /\ Exit(1)
            /\ UNCHANGED <<fetched_inputs, current_inputs>>
       \/ \E field \in InputsFields :
            /\ fetched_inputs' = field
            /\ current_inputs' = GetInputs(field)
            /\ pc' = "update"
            /\ UNCHANGED <<output, exit_code>>
    /\ UNCHANGED <<supplied, args, login_pass, prompted, secret_data, role_id, results,
                   cred_id, patch_resp>>

\* Sending only the new field instead of the merged mapping.
SetItemOnly(d, key, value) == [k \in {key} |-> value]

\* current_inputs["role_id"] = role_id
SetItem(d, key, value) == [k \in DOMAIN d \cup {key} |-> IF k = key THEN value ELSE d[k]]

PatchRequest(inputs) == [op |-> "awx_patch", target |-> cred_url, auth |-> SessionAuth,
                         json |-> [inputs |-> inputs]]

\* Taking every 2xx status for a success.
IsSuccessAny2xx(status) == status \in 200..299

\* The status codes the run reports as success.
IsSuccess(status) == status \in SuccessStatuses

\* main() returns and the interpreter ends with the status it has.
ReturnFromMain == pc' = "exited" /\ UNCHANGED exit_code

\* The failure line without the response text.
UpdateFailedLineNoText(status, text) ==
    [kind |-> "UpdateFailed", status_code |-> status, text |-> ""]

\* The line printed for a status that is not a success.
UpdateFailedLine(status, text) ==
    [kind |-> "UpdateFailed", status_code |-> status, text |-> text]

\* The else branch ending the process with status 1.
UpdateFailedFatal(status, text) ==
    /\ output' = Append(output, UpdateFailedLine(status, text))
    /\ pc' = "exited"
    /\ exit_code' = 1

\* The else branch of the status test: report, then fall off the end of main().
UpdateFailed(status, text) ==
    /\ Echo(UpdateFailedLine(status, text))
    /\ ReturnFromMain

\* The merge, the PATCH and the report; the process then ends normally.
UpdateRoleId ==
    /\ pc = "update"
    /\ IF current_inputs.t # "dict"
       THEN \* item assignment on None: TypeError, outside every try block
            /\ Exit(1)
            /\ UNCHANGED <<current_inputs, patch_resp, calls, output>>
       ELSE LET merged == SetItem(current_inputs.v, "role_id", role_id)
            IN /\ current_inputs' = JDict(merged)
               /\ Send(<<PatchRequest(merged)>>)
               /\ \/ \E err \in {"request_error"} :
                       /\ Echo([kind |-> "UpdateError", error |-> err])
                       /\ ReturnFromMain
                       /\ UNCHANGED patch_resp
                  \/ \E status \in PatchStatuses, text \in PatchTexts :
                       /\ patch_resp' = [status_code |-> status, text |-> text]
                       /\ IF IsSuccess(status)
                          THEN /\ Echo([kind |-> "UpdateSuccess",
                                        name |-> args["cred_name"], id |-> cred_id])
                               /\ ReturnFromMain
                          ELSE UpdateFailed(status, text)
    /\ UNCHANGED <<supplied, args, login_pass, prompted, secret_data, role_id, results,
                   cred_id, fetched_inputs>>

Next ==
    \/ ParseAndCheck
    \/ PromptPassword
    \/ VaultLogin
    \/ ReadSecret
    \/ FindCredential
    \/ FetchInputs
    \/ UpdateRoleId

Spec == Init /\ [][Next]_vars

\* ================================================================ properties
Last(seq) == seq[Len(seq)]
Printed(kind) == \E i \in DOMAIN output : output[i].kind = kind
Issued(op) == \E i \in DOMAIN calls : calls[i].op = op
OpsIssued == [i \in DOMAIN calls |-> calls[i].op]
LastOp == IF calls = <<>> THEN "none" ELSE Last(calls).op
RequiredSet == {required[i] : i \in 1..Len(required)}
Unsupplied == RequiredSet \ supplied

\* The steps' requests in the order main() issues them.
CallOrder == <<"vault_login", "vault_is_authenticated", "vault_read",
               "awx_find", "awx_fetch", "awx_patch">>
PlatformOps == {"awx_find", "awx_fetch", "awx_patch"}

\* The PATCH was answered, and with which kind of status.
PatchAnswered == Issued("awx_patch") /\ patch_resp # NoResponse
PatchSucceeded == PatchAnswered /\ patch_resp.status_code \in {200, 202}

\* ---------------------------------------------------------------------- C1
\* The mapping the record carried when fetched (empty when it has no "inputs")
\* and the value stored under key.subkey of the secret document.
FetchedMapping == IF fetched_inputs = Absent THEN EmptyDict ELSE fetched_inputs.v
StoredSecret == secret_data.v[args["key"]].v[args["subkey"]]

\* C1: every PATCH body is exactly {"inputs": M'} where M' has the keys of the
\* fetched mapping M plus role_id, M'["role_id"] is the secret value read from
\* the store, and every other key of M keeps the value it had in M.
C1_MergePreservesFields ==
    \A i \in DOMAIN calls :
        calls[i].op = "awx_patch" =>
            LET body == calls[i].json
            IN /\ DOMAIN body = {"inputs"}
               /\ DOMAIN body.inputs = DOMAIN FetchedMapping \cup {"role_id"}
               /\ body.inputs["role_id"] = StoredSecret
               /\ \A k \in DOMAIN FetchedMapping \ {"role_id"} :
                      body.inputs[k] = FetchedMapping[k]

\* A PATCH was sent for a record that had another field and an older role_id.
C1_Witness ==
    /\ Issued("awx_patch")
    /\ fetched_inputs.t = "dict"
    /\ DOMAIN fetched_inputs.v = {"a", "role_id"}
    /\ fetched_inputs.v["role_id"] # role_id

\* ---------------------------------------------------------------------- C2
\* The first option of the `required` list that is supplied by neither source.
FirstUnsupplied ==
    required[CHOOSE i \in 1..Len(required) :
                 /\ required[i] \in Unsupplied
                 /\ \A j \in 1..Len(required) : required[j] \in Unsupplied => i <= j]

\* The run was aborted by the configuration check: nothing was sent, nothing
\* was prompted for, and the one line printed names `param`.
AbortedNaming(param) ==
    /\ pc = "exited"
    /\ exit_code = 1
    /\ calls = <<>>
    /\ ~prompted
    /\ output = <<[kind |-> "MissingParameter", param |-> param]>>

\* C2 as stated: every unsupplied required option is the one the message names.
C2_NamesEveryMissingField ==
    pc # "parse" => \A f \in Unsupplied : AbortedNaming(f)

\* C2, amended: when some required option is supplied by neither flag nor
\* environment, the run aborts before any network call and before the prompt,
\* and the message names the first such option in the order of the required
\* list (the omitted option itself when it is the only one omitted).
C2_NamesFirstMissingField ==
    (pc # "parse" /\ Unsupplied # {}) => AbortedNaming(FirstUnsupplied)

\* Only the user name was omitted, and the run aborted.
C2_Witness ==
    /\ pc = "exited"
    /\ Unsupplied = {"username"}
    /\ Printed("MissingParameter")

\* ---------------------------------------------------------------------- C3
\* The document was read and has no usable value at key.subkey: the key is
\* absent, the subkey is absent, or the value there is empty.
LacksKeyPath ==
    /\ secret_data.t = "dict"
    /\ LET doc == secret_data.v
           k == args["key"]
           sk == args["subkey"]
       IN \/ k \notin DOMAIN doc
          \/ /\ doc[k].t = "dict"
             /\ \/ sk \notin DOMAIN doc[k].v
                \/ doc[k].v[sk] \in {None, ""}

\* C3: a secret document lacking the key path ends the run with the
\* secret-not-found line and status 1, and no platform request is ever issued.
C3_NoSecretNoPlatformCalls ==
    LacksKeyPath =>
        /\ pc = "exited"
        /\ exit_code = 1
        /\ Last(output) = [kind |-> "SecretNotRetrieved",
                           key |-> args["key"], subkey |-> args["subkey"]]
        /\ \A i \in DOMAIN calls : calls[i].op \notin PlatformOps

\* The key and the subkey are there, and the value is the empty string.
C3_Witness ==
    /\ secret_data.t = "dict"
    /\ args["key"] \in DOMAIN secret_data.v
    /\ secret_data.v[args["key"]].t = "dict"
    /\ args["subkey"] \in DOMAIN secret_data.v[args["key"]].v
    /\ secret_data.v[args["key"]].v[args["subkey"]] = ""
    /\ pc = "exited"

\* ---------------------------------------------------------------------- C4
\* C4: when the find-by-name query returns no record, the run ends with the
\* not-found line naming the credential and status 1, and neither a fetch nor
\* an update request is issued.
C4_NotFoundNoFetchNoUpdate ==
    (results.t = "list" /\ results.v = <<>>) =>
        /\ pc = "exited"
        /\ exit_code = 1
        /\ Last(output) = [kind |-> "CredentialNotFound", name |-> args["cred_name"]]
        /\ ~Issued("awx_fetch")
        /\ ~Issued("awx_patch")

\* The query was sent and answered with an empty list.
C4_Witness ==
    /\ Issued("awx_find")
    /\ results.t = "list"
    /\ results.v = <<>>

\* ---------------------------------------------------------------------- C5
\* C5: a run whose PATCH is answered 200 or 202 ends with status 0 and with
\* the success line last, carrying the credential's name and the identifier the
\* PATCH was sent to; the success line is printed in no other run.
C5_SuccessReported ==
    /\ (pc = "exited" /\ PatchSucceeded) =>
          /\ exit_code = 0
          /\ Last(output) = [kind |-> "UpdateSuccess", name |-> args["cred_name"],
                             id |-> Last(calls).target.id]
    /\ Printed("UpdateSuccess") => (pc = "exited" /\ PatchSucceeded)

\* A run that ended on a 202.
C5_Witness ==
    /\ pc = "exited"
    /\ PatchAnswered
    /\ patch_resp.status_code = 202
    /\ Printed("UpdateSuccess")

\* ---------------------------------------------------------------------- C6
\* C6: a PATCH answered with a status other than 200 and 202 is reported by a
\* failure line carrying that status and the response text, and the run prints
\* no success line.
C6_FailureStatusReported ==
    (PatchAnswered /\ patch_resp.status_code \notin {200, 202}) =>
        /\ Last(output) = [kind |-> "UpdateFailed",
                           status_code |-> patch_resp.status_code,
                           text |-> patch_resp.text]
        /\ ~Printed("UpdateSuccess")

\* The PATCH was answered 400 "bad request".
C6_Witness ==
    /\ PatchAnswered
    /\ patch_resp.status_code = 400
    /\ patch_resp.text = "bad request"

\* ---------------------------------------------------------------------- C7
\* The lines of the fatal failures that precede the update step.
FatalLines == {"MissingParameter", "VaultAuthFailed", "VaultAuthError",
               "SecretNotRetrieved", "VaultReadError",
               "FindError", "CredentialNotFound", "FetchError"}

\* C7: every fatal failure before the update step (missing parameter, Vault
\* authentication, secret read or lookup, find, fetch) ends the process with
\* status 1; so does every run that ends without having sent the PATCH.
C7_FatalFailuresExitOne ==
    /\ \A k \in FatalLines : Printed(k) => (pc = "exited" /\ exit_code = 1)
    /\ (pc = "exited" /\ ~Issued("awx_patch")) => exit_code = 1

\* The fetch of the record's fields failed.
C7_Witness ==
    /\ pc = "exited"
    /\ Issued("awx_fetch")
    /\ Printed("FetchError")

\* ---------------------------------------------------------------------- C8
\* C8: the requests issued so far are always an initial part of
\* login, token check, read, find, fetch, update, each issued at most once;
\* a request is issued only when every earlier step has succeeded; and once a
\* failure line is printed it is the last line, the run has ended, and no
\* request follows the failed step's own.
C8_StrictOrder ==
    /\ Len(calls) <= Len(CallOrder)
    /\ OpsIssued = SubSeq(CallOrder, 1, Len(calls))
    /\ calls # <<>> => (Unsupplied = {} /\ login_pass # None)
    /\ Issued("vault_read") =>
          ~Printed("VaultAuthFailed") /\ ~Printed("VaultAuthError")
    /\ Issued("awx_find") =>
          /\ ~Printed("VaultReadError") /\ ~Printed("SecretNotRetrieved")
          /\ Printed("RetrievedRoleId")
          /\ role_id \notin {None, ""}
    /\ Issued("awx_fetch") =>
          /\ ~Printed("FindError") /\ ~Printed("CredentialNotFound")
          /\ results.t = "list" /\ results.v # <<>>
    /\ Issued("awx_patch") =>
          /\ ~Printed("FetchError")
          /\ fetched_inputs.t \in {"absent", "dict"}
    /\ \A k \in FatalLines :
          Printed(k) =>
             /\ Last(output).kind = k
             /\ pc = "exited"
             /\ LastOp \in
                   CASE k = "MissingParameter" -> {"none"}
                     [] k = "VaultAuthFailed" -> {"vault_is_authenticated"}
                     [] k = "VaultAuthError" -> {"vault_login", "vault_is_authenticated"}
                     [] k \in {"SecretNotRetrieved", "VaultReadError"} -> {"vault_read"}
                     [] k \in {"FindError", "CredentialNotFound"} -> {"awx_find"}
                     [] k = "FetchError" -> {"awx_fetch"}

\* A run that went through all six requests.
C8_Witness ==
    /\ pc = "exited"
    /\ Len(calls) = Len(CallOrder)

\* ---------------------------------------------------------------------- C9
\* The PATCH was sent and did not succeed: it raised, or was answered with a
\* status other than 200 and 202.
UpdateDidNotSucceed == Issued("awx_patch") /\ ~PatchSucceeded

\* C9: a run whose update fails still ends with status 0, after printing the
\* failure.
C9_UpdateFailureExitsZero ==
    (pc = "exited" /\ UpdateDidNotSucceed) =>
        /\ exit_code = 0
        /\ Last(output).kind \in {"UpdateFailed", "UpdateError"}

\* A run that ended with status 0 although the PATCH was answered 500.
C9_Witness ==
    /\ pc = "exited"
    /\ exit_code = 0
    /\ PatchAnswered
    /\ patch_resp.status_code = 500

\* --------------------------------------------------------------------- C10
\* C10: when the query returns records, the first one's identifier is the one
\* kept, and every fetch and every update request of the run is sent to it.
C10_FirstMatchWins ==
    (results.t = "list" /\ results.v # <<>>) =>
        /\ cred_id = results.v[1]
        /\ \A i \in DOMAIN calls :
              calls[i].op \in {"awx_fetch", "awx_patch"} =>
                 calls[i].target.id = results.v[1]

\* Two different records matched, and the update was sent.
C10_Witness ==
    /\ results.t = "list"
    /\ Len(results.v) = 2
    /\ results.v[1] # results.v[2]
    /\ Issued("awx_patch")
====
